---- MODULE Spec2Model ----
(***************************************************************************)
(* Stock management endpoints (backend/routers/stock.py).                  *)
(*                                                                         *)
(* The stock collection is a sequence of documents in natural (insertion)  *)
(* order.  Every handler is run by a worker of the server's thread pool;   *)
(* each access to a collection is one atomic step, and the steps of        *)
(* different workers interleave.                                           *)
(*                                                                         *)
(* Strings that are only compared for equality are TLA+ strings.  A        *)
(* category is a sequence of code points, so that sorted() is the          *)
(* lexicographic order of Python strings.  None is a value of its own,     *)
(* different from the empty string.                                        *)
(***************************************************************************)
EXTENDS Integers, Sequences, FiniteSets, TLC

VARIABLES stock, pc, req, last

vars == <<stock, pc, req, last>>

(***************************************************************************)
(* Bounds                                                                  *)
(***************************************************************************)
MaxQty == 1
MaxItems == 2
NumWorkers == 2

Workers == 1..NumWorkers

(***************************************************************************)
(* Values                                                                  *)
(***************************************************************************)
NoneUser == "<None>"
NoneCat == <<-1>>
NoneFlag == "None"

\* teachers_collection: the _id values of the credential store
teachers_collection == {"teacher1"}

Users == {NoneUser, "", "teacher1", "intruder"}

ItemIds == {"A1", "A2"}

Quantities == 0..MaxQty

\* "A", "AB"
Categories == {<<65>>, <<65, 66>>}

Variants ==
  { [name |-> "Chalk", category |-> <<65, 66>>, unit |-> "box",
     location |-> "Room 1", min_quantity |-> 1],
    [name |-> "Ball", category |-> <<65>>, unit |-> "piece",
     location |-> "Gym", min_quantity |-> 0] }

\* class StockItem(BaseModel)
StockItem(i, v, q) ==
  [item_id |-> i, name |-> v.name, category |-> v.category, quantity |-> q,
   unit |-> v.unit, location |-> v.location, min_quantity |-> v.min_quantity]

NewItems == {StockItem(i, v, q) : i \in ItemIds, v \in Variants, q \in Quantities}

NoItem == StockItem("", [name |-> "", category |-> <<>>, unit |-> "",
                         location |-> "", min_quantity |-> 0], 0)

\* the inputs of the concurrent specification
RaceUsers == {"teacher1"}
RaceItems == {it \in NewItems : it.name = "Chalk" /\ it.quantity = 0}

(***************************************************************************)
(* The document store (pymongo collection operations)                      *)
(***************************************************************************)
Indices(coll, id) == {k \in 1..Len(coll) : coll[k].item_id = id}

\* position of the first document matching {"item_id": id}; 0 when none
FirstIndex(coll, id) ==
  IF Indices(coll, id) = {} THEN 0
  ELSE CHOOSE k \in Indices(coll, id) : \A j \in Indices(coll, id) : k <= j

\* stock_collection.find_one({"item_id": id}) is not None
Exists(coll, id) == FirstIndex(coll, id) # 0

\* item.model_dump()
model_dump(item) ==
  [item_id |-> item.item_id, name |-> item.name, category |-> item.category,
   quantity |-> item.quantity, unit |-> item.unit, location |-> item.location,
   min_quantity |-> item.min_quantity]

\* stock_collection.insert_one(doc): the store adds _id and appends; no
\* index makes item_id unique
insert_one(coll, doc) ==
  Append(coll, [f \in DOMAIN doc \cup {"_id"} |->
                  IF f = "_id" THEN "ObjectId" ELSE doc[f]])

\* mutant: the _id of the store is left in the document
pop_id_Kept(doc) == doc

\* item.pop('_id', None)
pop_id(doc) == [f \in DOMAIN doc \ {"_id"} |-> doc[f]]

\* mutant: $inc in place of $set
update_one_Inc(coll, id, q) ==
  LET k == FirstIndex(coll, id) IN
  IF k = 0 THEN [coll |-> coll, modified_count |-> 0]
  ELSE [coll |-> [coll EXCEPT ![k].quantity = @ + q],
        modified_count |-> IF q = 0 THEN 0 ELSE 1]

\* mutant: the count of the matched documents in place of the modified ones
update_one_Matched(coll, id, q) ==
  LET k == FirstIndex(coll, id) IN
  IF k = 0 THEN [coll |-> coll, modified_count |-> 0]
  ELSE [coll |-> [coll EXCEPT ![k].quantity = q], modified_count |-> 1]

\* stock_collection.update_one({"item_id": id}, {"$set": {"quantity": q}})
update_one(coll, id, q) ==
  LET k == FirstIndex(coll, id) IN
  IF k = 0 THEN [coll |-> coll, modified_count |-> 0]
  ELSE [coll |-> [coll EXCEPT ![k].quantity = q],
        modified_count |-> IF coll[k].quantity = q THEN 0 ELSE 1]

\* stock_collection.delete_one({"item_id": id})
delete_one(coll, id) ==
  LET k == FirstIndex(coll, id) IN
  IF k = 0 THEN [coll |-> coll, deleted_count |-> 0]
  ELSE [coll |-> SubSeq(coll, 1, k - 1) \o SubSeq(coll, k + 1, Len(coll)),
        deleted_count |-> 1]

\* list(stock_collection.find(query))
RECURSIVE find(_, _)
find(coll, query) ==
  IF coll = <<>> THEN <<>>
  ELSE IF query = NoneCat \/ Head(coll).category = query
       THEN <<Head(coll)>> \o find(Tail(coll), query)
       ELSE find(Tail(coll), query)

\* stock_collection.distinct("category")
RECURSIVE distinct(_)
distinct(coll) ==
  IF coll = <<>> THEN <<>>
  ELSE LET rest == distinct(SubSeq(coll, 1, Len(coll) - 1))
           c == coll[Len(coll)].category
       IN IF \E k \in 1..Len(rest) : rest[k] = c THEN rest ELSE Append(rest, c)

(***************************************************************************)
(* Python helpers                                                          *)
(***************************************************************************)
\* str.__lt__: lexicographic order of the code points
RECURSIVE StrLess(_, _)
StrLess(a, b) ==
  IF b = <<>> THEN FALSE
  ELSE IF a = <<>> THEN TRUE
  ELSE IF Head(a) # Head(b) THEN Head(a) < Head(b)
  ELSE StrLess(Tail(a), Tail(b))

RECURSIVE insort(_, _)
insort(s, c) ==
  IF s = <<>> THEN <<c>>
  ELSE IF StrLess(c, Head(s)) THEN <<c>> \o s
  ELSE <<Head(s)>> \o insort(Tail(s), c)

\* sorted(categories)
RECURSIVE sorted(_)
sorted(s) == IF s = <<>> THEN <<>> ELSE insort(sorted(Tail(s)), Head(s))

RECURSIVE MapPop(_)
MapPop(items) ==
  IF items = <<>> THEN <<>> ELSE <<pop_id(Head(items))>> \o MapPop(Tail(items))

\* mutant: <= in place of <
RECURSIVE LowStockOnly_Inclusive(_)
LowStockOnly_Inclusive(items) ==
  IF items = <<>> THEN <<>>
  ELSE IF Head(items).quantity <= Head(items).min_quantity
       THEN <<Head(items)>> \o LowStockOnly_Inclusive(Tail(items))
       ELSE LowStockOnly_Inclusive(Tail(items))

\* [item for item in items if item["quantity"] < item["min_quantity"]]
RECURSIVE LowStockOnly(_)
LowStockOnly(items) ==
  IF items = <<>> THEN <<>>
  ELSE IF Head(items).quantity < Head(items).min_quantity
       THEN <<Head(items)>> \o LowStockOnly(Tail(items))
       ELSE LowStockOnly(Tail(items))

(***************************************************************************)
(* Requests                                                                *)
(***************************************************************************)
Request(op, user, item, id, q, cat, low) ==
  [op |-> op, teacher_username |-> user, item |-> item, item_id |-> id,
   quantity |-> q, category |-> cat, low_stock |-> low,
   status_code |-> 0, detail |-> "", body |-> <<>>, overlap |-> "none",
   pre |-> <<>>]

NoRequest == Request("none", NoneUser, NoItem, "", 0, NoneCat, NoneFlag)

\* what is remembered of the request answered last
Summary(rq) ==
  [op |-> rq.op, item_id |-> rq.item_id, item |-> rq.item,
   status_code |-> rq.status_code, alone |-> rq.overlap = "none"]

Active(w) == pc[w] \notin {"idle", "done"}

\* how the request other overlaps the request rq: as a delete of the same
\* identifier ("twin") or otherwise ("other")
Overlap(rq, other) ==
  IF /\ rq.op = "delete_stock_item" /\ other.op = "delete_stock_item"
     /\ rq.item_id = other.item_id
  THEN "twin" ELSE "other"

Merge(a, b) == IF a = "none" THEN b ELSE IF a = b THEN a ELSE "other"

\* a request arrives at worker r; pre records the store at its arrival and
\* overlap the requests in progress between its arrival and its response:
\* "none", "twin" (only deletes of the same identifier) or "other"
Begin(r, rq, first) ==
  /\ pc[r] = "idle"
  /\ \A w \in Workers : pc[w] # "done"
  /\ pc' = [pc EXCEPT ![r] = first]
  /\ LET busy == {w \in Workers : Active(w)}
         seen == IF busy = {} THEN "none"
                 ELSE IF \A w \in busy : Overlap(rq, req[w]) = "twin" THEN "twin"
                 ELSE "other"
     IN req' = [w \in Workers |->
                  IF w = r THEN [rq EXCEPT !.overlap = seen, !.pre = stock]
                  ELSE IF Active(w)
                       THEN [req[w] EXCEPT
                               !.overlap = Merge(@, Overlap(req[w], rq))]
                  ELSE req[w]]
  /\ UNCHANGED <<stock, last>>

Respond(r, code, detail, body) ==
  /\ pc' = [pc EXCEPT ![r] = "done"]
  /\ req' = [req EXCEPT ![r].status_code = code, ![r].detail = detail,
                        ![r].body = body]

\* raise HTTPException(status_code=code, detail=detail)
Raise(r, code, detail) == Respond(r, code, detail, <<>>) /\ UNCHANGED <<stock, last>>

\* the response has been delivered
Finish(r) ==
  /\ pc[r] = "done"
  /\ pc' = [pc EXCEPT ![r] = "idle"]
  /\ last' = Summary(req[r])
  /\ req' = [req EXCEPT ![r] = NoRequest]
  /\ UNCHANGED stock

Init ==
  /\ stock = <<>>
  /\ pc = [w \in Workers |-> "idle"]
  /\ req = [w \in Workers |-> NoRequest]
  /\ last = Summary(NoRequest)

(***************************************************************************)
(* Teacher authentication, the same in the three mutating handlers         *)
(***************************************************************************)
\* Python truthiness of an Optional[str]
Truthy(s) == s # NoneUser /\ s # ""

\* mutant: the teacher is not looked up
AuthFailure_NoLookup(teacher_username) ==
  IF ~Truthy(teacher_username) THEN "Authentication required for this action"
  ELSE ""

\* "" when the request may proceed, else the detail of the 401
AuthFailure(teacher_username) ==
  IF ~Truthy(teacher_username) THEN "Authentication required for this action"
  ELSE IF teacher_username \notin teachers_collection
       THEN "Invalid teacher credentials"
  ELSE ""

Authenticate(r) ==
  IF AuthFailure(req[r].teacher_username) # ""
  THEN Raise(r, 401, AuthFailure(req[r].teacher_username))
  ELSE /\ pc' = [pc EXCEPT ![r] = "check"]
       /\ UNCHANGED <<stock, req, last>>

(***************************************************************************)
(* GET /stock                                                              *)
(***************************************************************************)
Call_get_stock_items(r, cats, flags) ==
  \E c \in cats, f \in flags :
    Begin(r, Request("get_stock_items", NoneUser, NoItem, "", 0, c, f), "read")

\* the list returned for a store content
stock_items(coll, category, low_stock) ==
  LET query == IF category # NoneCat /\ category # <<>> THEN category ELSE NoneCat
      items == MapPop(find(coll, query))
  IN IF low_stock = "true" THEN LowStockOnly(items) ELSE items

get_stock_items(r) ==
  /\ pc[r] = "read" /\ req[r].op = "get_stock_items"
  /\ Respond(r, 200, "", stock_items(stock, req[r].category, req[r].low_stock))
  /\ UNCHANGED <<stock, last>>

(***************************************************************************)
(* GET /stock/categories                                                   *)
(***************************************************************************)
Call_get_categories(r) ==
  Begin(r, Request("get_categories", NoneUser, NoItem, "", 0, NoneCat, NoneFlag),
        "read")

\* mutant: the distinct values are returned as the store gives them
categories_Unsorted(coll) == distinct(coll)

categories(coll) == sorted(distinct(coll))

get_categories(r) ==
  /\ pc[r] = "read" /\ req[r].op = "get_categories"
  /\ Respond(r, 200, "", categories(stock))
  /\ UNCHANGED <<stock, last>>

(***************************************************************************)
(* GET /stock/{item_id}                                                    *)
(***************************************************************************)
Call_get_stock_item(r, ids) ==
  \E id \in ids :
    Begin(r, Request("get_stock_item", NoneUser, NoItem, id, 0, NoneCat, NoneFlag),
          "read")

get_stock_item(r) ==
  /\ pc[r] = "read" /\ req[r].op = "get_stock_item"
  /\ IF ~Exists(stock, req[r].item_id)
     THEN Raise(r, 404, "Stock item not found")
     ELSE /\ Respond(r, 200, "",
                     <<pop_id(stock[FirstIndex(stock, req[r].item_id)])>>)
          /\ UNCHANGED <<stock, last>>

(***************************************************************************)
(* POST /stock                                                             *)
(***************************************************************************)
Creating == {w \in Workers : Active(w) /\ req[w].op = "create_stock_item"}

Call_create_stock_item(r, users, items) ==
  /\ Len(stock) + Cardinality(Creating) < MaxItems
  /\ \E u \in users, it \in items :
       Begin(r, Request("create_stock_item", u, it, it.item_id, 0, NoneCat,
                        NoneFlag), "auth")

create_stock_item_auth(r) ==
  /\ pc[r] = "auth" /\ req[r].op = "create_stock_item"
  /\ Authenticate(r)

\* mutant: the item_id is not looked up before the insert
create_stock_item_check_Skipped(r) ==
  /\ pc[r] = "check" /\ req[r].op = "create_stock_item"
  /\ pc' = [pc EXCEPT ![r] = "write"]
  /\ UNCHANGED <<stock, req, last>>

create_stock_item_check(r) ==
  /\ pc[r] = "check" /\ req[r].op = "create_stock_item"
  /\ IF Exists(stock, req[r].item.item_id)
     THEN Raise(r, 400, "Item ID already exists")
     ELSE /\ pc' = [pc EXCEPT ![r] = "write"]
          /\ UNCHANGED <<stock, req, last>>

create_stock_item_insert(r) ==
  /\ pc[r] = "write" /\ req[r].op = "create_stock_item"
  /\ stock' = insert_one(stock, model_dump(req[r].item))
  /\ Respond(r, 200, "", <<"Stock item", req[r].item.item_id, "created successfully">>)
  /\ UNCHANGED last

(***************************************************************************)
(* PUT /stock/{item_id}                                                    *)
(***************************************************************************)
Call_update_stock_quantity(r, users, ids, qtys) ==
  \E u \in users, id \in ids, q \in qtys :
    Begin(r, Request("update_stock_quantity", u, NoItem, id, q, NoneCat, NoneFlag),
          "auth")

update_stock_quantity_auth(r) ==
  /\ pc[r] = "auth" /\ req[r].op = "update_stock_quantity"
  /\ Authenticate(r)

update_stock_quantity_check(r) ==
  /\ pc[r] = "check" /\ req[r].op = "update_stock_quantity"
  /\ IF ~Exists(stock, req[r].item_id)
     THEN Raise(r, 404, "Stock item not found")
     ELSE /\ pc' = [pc EXCEPT ![r] = "write"]
          /\ UNCHANGED <<stock, req, last>>

update_stock_quantity_write(r) ==
  /\ pc[r] = "write" /\ req[r].op = "update_stock_quantity"
  /\ LET result == update_one(stock, req[r].item_id, req[r].quantity) IN
       /\ stock' = result.coll
       /\ IF result.modified_count = 0
          THEN Respond(r, 500, "Failed to update stock item", <<>>)
          ELSE Respond(r, 200, "", <<"Stock item", req[r].item_id,
                                     "quantity updated to", req[r].quantity>>)
  /\ UNCHANGED last

(***************************************************************************)
(* DELETE /stock/{item_id}                                                 *)
(***************************************************************************)
Call_delete_stock_item(r, users, ids) ==
  \E u \in users, id \in ids :
    Begin(r, Request("delete_stock_item", u, NoItem, id, 0, NoneCat, NoneFlag),
          "auth")

delete_stock_item_auth(r) ==
  /\ pc[r] = "auth" /\ req[r].op = "delete_stock_item"
  /\ Authenticate(r)

delete_stock_item_check(r) ==
  /\ pc[r] = "check" /\ req[r].op = "delete_stock_item"
  /\ IF ~Exists(stock, req[r].item_id)
     THEN Raise(r, 404, "Stock item not found")
     ELSE /\ pc' = [pc EXCEPT ![r] = "write"]
          /\ UNCHANGED <<stock, req, last>>

delete_stock_item_write(r) ==
  /\ pc[r] = "write" /\ req[r].op = "delete_stock_item"
  /\ LET result == delete_one(stock, req[r].item_id) IN
       /\ stock' = result.coll
       /\ IF result.deleted_count = 0
          THEN Respond(r, 500, "Failed to delete stock item", <<>>)
          ELSE Respond(r, 200, "", <<"Stock item", req[r].item_id,
                                     "deleted successfully">>)
  /\ UNCHANGED last

(***************************************************************************)
(* Specifications                                                          *)
(***************************************************************************)
Mutate(r) ==
  \/ create_stock_item_auth(r)
  \/ create_stock_item_check(r)
  \/ create_stock_item_insert(r)
  \/ update_stock_quantity_auth(r)
  \/ update_stock_quantity_check(r)
  \/ update_stock_quantity_write(r)
  \/ delete_stock_item_auth(r)
  \/ delete_stock_item_check(r)
  \/ delete_stock_item_write(r)

\* Spec: the workers serve mutating requests concurrently
Next ==
  \E r \in Workers :
    \/ Call_create_stock_item(r, RaceUsers, RaceItems)
    \/ Call_update_stock_quantity(r, RaceUsers, ItemIds, Quantities)
    \/ Call_delete_stock_item(r, RaceUsers, ItemIds)
    \/ Mutate(r)
    \/ Finish(r)

Spec == Init /\ [][Next]_vars

\* SeqSpec: one request at a time, all endpoints, all inputs
Quiet == \A w \in Workers : pc[w] = "idle"

CatArgs == {NoneCat, <<>>} \cup Categories
FlagArgs == {NoneFlag, "true", "false"}

SeqNext ==
  \E r \in {1} :
    \/ Quiet /\ Call_get_stock_items(r, CatArgs, FlagArgs)
    \/ Quiet /\ Call_get_categories(r)
    \/ Quiet /\ Call_get_stock_item(r, ItemIds)
    \/ Quiet /\ Call_create_stock_item(r, Users, NewItems)
    \/ Quiet /\ Call_update_stock_quantity(r, Users, ItemIds, Quantities)
    \/ Quiet /\ Call_delete_stock_item(r, Users, ItemIds)
    \/ get_stock_items(r)
    \/ get_categories(r)
    \/ get_stock_item(r)
    \/ Mutate(r)
    \/ Finish(r)

SeqSpec == Init /\ [][SeqNext]_vars

(***************************************************************************)
(* Properties                                                              *)
(***************************************************************************)
HasId(coll, id) == \E k \in 1..Len(coll) : coll[k].item_id = id

ValidCredential(u) == u # NoneUser /\ u # "" /\ u \in teachers_collection

Answered(r, op) == pc[r] = "done" /\ req[r].op = op

\* the seven fields of a stock item
Fields(d) ==
  [item_id |-> d.item_id, name |-> d.name, category |-> d.category,
   quantity |-> d.quantity, unit |-> d.unit, location |-> d.location,
   min_quantity |-> d.min_quantity]

MutatingOps == {"create_stock_item", "update_stock_quantity", "delete_stock_item"}

\* C1: a create, update or delete request whose teacher_username is absent,
\* empty or not in the teacher store never gets past the authentication, is
\* answered 401 and leaves the store as it was at its arrival, whether or
\* not its item identifier exists.
C1_UnauthorizedFirst ==
  \A r \in Workers :
    (pc[r] # "idle" /\ req[r].op \in MutatingOps
       /\ ~ValidCredential(req[r].teacher_username))
    => /\ pc[r] \in {"auth", "done"}
       /\ stock = req[r].pre
       /\ pc[r] = "done" => req[r].status_code = 401

C1_Witness ==
  \E r \in Workers :
    /\ Answered(r, "delete_stock_item")
    /\ req[r].teacher_username = "intruder"
    /\ HasId(req[r].pre, req[r].item_id)
    /\ req[r].status_code = 401

\* C2: no two documents of the store have the same item_id.
C2_UniqueIds ==
  \A j, k \in 1..Len(stock) : j # k => stock[j].item_id # stock[k].item_id

\* C3: a create with a valid credential and an item_id that a stored item
\* has at its arrival is answered 400 and leaves the store unchanged,
\* whatever its other fields are.
C3_DuplicateConflict ==
  \A r \in Workers :
    (Answered(r, "create_stock_item")
       /\ ValidCredential(req[r].teacher_username)
       /\ HasId(req[r].pre, req[r].item.item_id))
    => req[r].status_code = 400 /\ stock = req[r].pre

C3_Witness ==
  \E r \in Workers :
    /\ Answered(r, "create_stock_item")
    /\ req[r].status_code = 400
    /\ \E k \in 1..Len(stock) :
         /\ stock[k].item_id = req[r].item.item_id
         /\ stock[k].name # req[r].item.name
         /\ stock[k].quantity # req[r].item.quantity

\* C4: a successful create appends one document and changes no other; a
\* get_stock_item of the created identifier that is the next request
\* returns the seven fields with the values given to the create.
C4_CreateThenGet ==
  \A r \in Workers :
    /\ (Answered(r, "create_stock_item") /\ req[r].status_code = 200)
       => /\ ~HasId(req[r].pre, req[r].item.item_id)
          /\ Len(stock) = Len(req[r].pre) + 1
          /\ SubSeq(stock, 1, Len(req[r].pre)) = req[r].pre
    /\ (Answered(r, "get_stock_item") /\ last.op = "create_stock_item"
          /\ last.status_code = 200 /\ last.item_id = req[r].item_id)
       => req[r].status_code = 200 /\ req[r].body = <<last.item>>

C4_Witness ==
  \E r \in Workers :
    /\ Answered(r, "get_stock_item")
    /\ last.op = "create_stock_item" /\ last.status_code = 200
    /\ last.item_id = req[r].item_id
    /\ Len(stock) = 2
    /\ req[r].status_code = 200

\* the documents of coll whose item_id is not id, in order
OtherItems(coll, id) == SelectSeq(coll, LAMBDA d : d.item_id # id)

\* C5: a delete with a valid credential that no other request overlaps is
\* answered 404 with the store unchanged when no item has the identifier;
\* when one has it, the delete succeeds and removes that item and no
\* other, and a second delete of the identifier right after it is
\* answered 404.
C5_DeleteTwice ==
  \A r \in Workers :
    (Answered(r, "delete_stock_item") /\ req[r].overlap = "none"
       /\ ValidCredential(req[r].teacher_username))
    => /\ ~HasId(req[r].pre, req[r].item_id)
          => req[r].status_code = 404 /\ stock = req[r].pre
       /\ HasId(req[r].pre, req[r].item_id)
          => /\ req[r].status_code = 200
             /\ OtherItems(stock, req[r].item_id)
                  = OtherItems(req[r].pre, req[r].item_id)
             /\ Len(stock) = Len(req[r].pre) - 1
       /\ (last.op = "delete_stock_item" /\ last.alone
             /\ last.status_code = 200 /\ last.item_id = req[r].item_id)
          => req[r].status_code = 404

\* whether a category argument was supplied, as the claim has it
Supplied(category) == category # NoneCat

\* what get_stock_items is to return for the store coll
Expected(coll, filtered, category, low_stock) ==
  LET Wanted(d) ==
        /\ filtered => d.category = category
        /\ low_stock = "true" => d.quantity < d.min_quantity
      chosen == SelectSeq(coll, Wanted)
  IN [k \in 1..Len(chosen) |-> Fields(chosen[k])]

\* C6 as claimed: get_stock_items returns the stored items of the supplied
\* category, only those with quantity < min_quantity when low_stock is
\* true, and leaves the store unchanged.
C6_ListAsClaimed ==
  \A r \in Workers :
    Answered(r, "get_stock_items")
    => /\ req[r].status_code = 200
       /\ req[r].body = Expected(stock, Supplied(req[r].category),
                                 req[r].category, req[r].low_stock)
       /\ stock = req[r].pre

\* C6 as amended: the same, where an empty category argument counts as no
\* category argument.
C6_List ==
  \A r \in Workers :
    Answered(r, "get_stock_items")
    => /\ req[r].status_code = 200
       /\ req[r].body = Expected(stock,
                                 Supplied(req[r].category) /\ req[r].category # <<>>,
                                 req[r].category, req[r].low_stock)
       /\ stock = req[r].pre

C6_Witness ==
  \E r \in Workers :
    /\ Answered(r, "get_stock_items")
    /\ req[r].low_stock = "true" /\ req[r].category = <<65, 66>>
    /\ Len(req[r].body) = 1
    /\ \E k \in 1..Len(stock) :
         /\ stock[k].category = <<65, 66>>
         /\ stock[k].quantity = stock[k].min_quantity

\* a before b in the lexicographic order of the code points
LexLess(a, b) ==
  \E k \in 1..Len(b) :
    /\ k <= Len(a) + 1
    /\ \A j \in 1..(k - 1) : a[j] = b[j]
    /\ k <= Len(a) => a[k] < b[k]

\* C7: get_categories returns the categories of the stored items, each
\* once, in ascending lexicographic order.
C7_Categories ==
  \A r \in Workers :
    Answered(r, "get_categories")
    => /\ req[r].status_code = 200
       /\ \A j, k \in 1..Len(req[r].body) :
            j < k => LexLess(req[r].body[j], req[r].body[k])
       /\ {req[r].body[k] : k \in 1..Len(req[r].body)}
            = {stock[k].category : k \in 1..Len(stock)}

C7_Witness ==
  \E r \in Workers :
    /\ Answered(r, "get_categories")
    /\ Len(stock) = 2
    /\ stock[1].category = <<65, 66>> /\ stock[2].category = <<65>>
    /\ req[r].body = << <<65>>, <<65, 66>> >>

\* the position of the item that a lookup of id finds in coll
First(coll, id) ==
  CHOOSE k \in 1..Len(coll) :
    coll[k].item_id = id /\ \A j \in 1..(k - 1) : coll[j].item_id # id

\* C8: an update with a valid credential is answered 404 with the store
\* unchanged when no item has the identifier; when it succeeds the item of
\* that identifier has the new quantity and its other fields as before,
\* and every other item is unchanged.
C8_UpdateFrame ==
  \A r \in Workers :
    (Answered(r, "update_stock_quantity")
       /\ ValidCredential(req[r].teacher_username))
    => /\ ~HasId(req[r].pre, req[r].item_id)
          => req[r].status_code = 404 /\ stock = req[r].pre
       /\ req[r].status_code = 200
          => /\ HasId(req[r].pre, req[r].item_id)
             /\ Len(stock) = Len(req[r].pre)
             /\ \A k \in 1..Len(stock) :
                  stock[k] = IF k = First(req[r].pre, req[r].item_id)
                             THEN [req[r].pre[k] EXCEPT !.quantity = req[r].quantity]
                             ELSE req[r].pre[k]

C8_Witness ==
  \E r \in Workers :
    /\ Answered(r, "update_stock_quantity")
    /\ req[r].status_code = 200
    /\ Len(stock) = 2
    /\ stock # req[r].pre

\* the quantity of the item of identifier id in coll
QuantityOf(coll, id) == coll[First(coll, id)].quantity

\* C9: an update with a valid credential of an existing item to the
\* quantity it has is answered 500 with the store unchanged; without
\* concurrent requests an update is answered 500 in no other case, and an
\* update of an existing item to another quantity succeeds.
C9_SameQuantity ==
  \A r \in Workers :
    (Answered(r, "update_stock_quantity")
       /\ ValidCredential(req[r].teacher_username))
    => /\ req[r].status_code = 500
          <=> /\ HasId(req[r].pre, req[r].item_id)
              /\ QuantityOf(req[r].pre, req[r].item_id) = req[r].quantity
       /\ req[r].status_code = 500 => stock = req[r].pre
       /\ (HasId(req[r].pre, req[r].item_id)
             /\ QuantityOf(req[r].pre, req[r].item_id) # req[r].quantity)
          => req[r].status_code = 200

C9_Witness ==
  \E r \in Workers :
    /\ Answered(r, "update_stock_quantity")
    /\ req[r].status_code = 500
    /\ Len(stock) = 2

\* C10: of two overlapping deletes with valid credentials of an identifier
\* that an item has at their arrival, which no request but deletes of that
\* identifier overlaps, at most one succeeds, the other is answered 404 or
\* 500, and no item has the identifier once both are answered; a delete
\* that no request overlaps is never answered 500.
C10_RacingDeletes ==
  /\ \A r, w \in Workers :
       (r # w /\ Answered(r, "delete_stock_item") /\ Answered(w, "delete_stock_item")
          /\ req[r].item_id = req[w].item_id
          /\ req[r].overlap = "twin" /\ req[w].overlap = "twin"
          /\ HasId(req[r].pre, req[r].item_id) /\ HasId(req[w].pre, req[w].item_id))
       => /\ ~(req[r].status_code = 200 /\ req[w].status_code = 200)
          /\ req[r].status_code \in {200, 404, 500}
          /\ ~HasId(stock, req[r].item_id)
  /\ \A r \in Workers :
       (Answered(r, "delete_stock_item") /\ req[r].overlap = "none")
       => req[r].status_code # 500
====
